---- MODULE Spec2Model ----
(***************************************************************************)
(* A model of himawari.Image (src/himawari.go): the tiled-mosaic fetcher.  *)
(* Image loads level x level chunks, sequentially or with a pool of        *)
(* worker goroutines fed through an unbuffered channel, and draws each     *)
(* chunk into its rectangle of a shared canvas.                            *)
(*                                                                         *)
(* A coordinate is <<x, y>>.  The error of a failed Chunk(t, level, x, y)  *)
(* is identified with its coordinate, so distinct fetches have distinct    *)
(* errors; NilErr is Go's nil error.                                       *)
(***************************************************************************)
EXTENDS Integers, Sequences, FiniteSets, Bags, TLC

\* ------------------------------------------------------------------ bounds
\* Image is called with level in -MaxNegLevel .. MaxLevel and the global
\* Workers in -MaxNegWorkers .. MaxWorkers; a call is explored when its
\* grid size times its worker setting is at most MaxLoad.
MaxNegLevel == 1
MaxLevel == 4
MaxNegWorkers == 1
MaxWorkers == 5
MaxLoad == 32

\* ------------------------------------------------------- program constants
DefaultLevel == 4

NilErr == <<>>

\* The value of a worker's variables x, y before it has received a coordinate.
NoCoord == <<>>

VARIABLES
    levelArg,     \* the level argument Image was called with
    Workers,      \* the package variable Workers at the call
    level,        \* the local variable level (defaulted at entry)
    workers,      \* the local variable workers (0 until it is computed)
    pc,           \* where the goroutine running Image is
    x, y,         \* loop variables of the sequential loop / the producer loop
    canvasAlloc,  \* image.NewRGBA has been called
    canvas,       \* bag of rectangles drawn into the canvas
    chunks,       \* "none", "open" or "closed": the channel of coordinates
    errc,         \* the buffered error channel: sequence of errors in it
    errcState,    \* "none", "open" or "closed"
    wg,           \* the WaitGroup counter
    wpc,          \* worker goroutine -> "recv", "fetch", "draw", "send", "done"
    wc,           \* worker goroutine -> the coordinate it holds
    fetches,      \* bag of coordinates passed to Chunk
    failed,       \* coordinates whose Chunk returned an error
    sent,         \* every error sent on errc, in the order of the sends
    retImg,       \* "none" until Image returns; then "nil", "tile" or "canvas"
    retErr,       \* the error Image returned
    panicked      \* a goroutine panicked: send on or close of a closed channel

vars == <<levelArg, Workers, level, workers, pc, x, y, canvasAlloc, canvas,
          chunks, errc, errcState, wg, wpc, wc, fetches, failed, sent,
          retImg, retErr, panicked>>

\* ------------------------------------------------------------ pure helpers
\* Variant of EffLevel: only a negative level selects the default.
EffLevelNegative(l) == IF l < 0 THEN DefaultLevel ELSE l

\* level <= 0 selects the default zoom level.
EffLevel(l) == IF l <= 0 THEN DefaultLevel ELSE l

\* Variant of IsSingle: the test compares with 0.
IsSingleZero(l) == l = 0

\* The level == 1 test of the single-chunk path.
IsSingle(l) == l = 1

\* Variant of Normalize: a setting <= 0 selects one goroutine per chunk.
NormalizeAll(l, w) ==
    IF w <= 0 THEN l * l
    ELSE IF w > l * l THEN l * l
    ELSE w

\* Variant of Normalize: the setting is not clamped to the grid size.
NormalizeNoClamp(l, w) == IF w <= 0 THEN 1 ELSE w

\* The number of goroutines Image uses for a grid of side l and setting w.
Normalize(l, w) ==
    IF w <= 0 THEN 1
    ELSE IF w > l * l THEN l * l
    ELSE w

Grid(l) == (0 .. l - 1) \X (0 .. l - 1)

\* Variant of NextCoord: the inner loop stops one column early.
NextCoordShort(l, cx, cy) == IF cx + 1 < l - 1 THEN <<cx + 1, cy>> ELSE <<0, cy + 1>>

\* Variant of NextCoord: the inner loop runs one column past the grid.
NextCoordOver(l, cx, cy) == IF cx < l THEN <<cx + 1, cy>> ELSE <<0, cy + 1>>

\* Variant of NextCoord: the loops are nested the other way round (x outer,
\* y inner), and are over when x reaches l.
NextCoordColumn(l, cx, cy) ==
    IF cy + 1 < l THEN <<cx, cy + 1>>
    ELSE IF cx + 1 < l THEN <<cx + 1, 0>>
    ELSE <<0, l>>

\* The loops "for y ... { for x ... }": the coordinate after <<cx, cy>>;
\* its y component equals l when both loops are over.
NextCoord(l, cx, cy) == IF cx + 1 < l THEN <<cx + 1, cy>> ELSE <<0, cy + 1>>

\* Variant of ChanRecv: the newest value is taken.
ChanRecvNewest(q) == q[Len(q)]

\* A receive from a buffered channel takes the oldest value.
ChanRecv(q) == Head(q)

\* Variant of ClosedRecv: the buffered values are dropped by the close.
ClosedRecvEmpty(q) == NilErr

\* A receive from a closed channel: the oldest buffered value, or the zero
\* value once the buffer is empty.
ClosedRecv(q) == IF q = <<>> THEN NilErr ELSE Head(q)

\* Variant of ErrcCap: make(chan error, 1).
ErrcCapSingle == IF workers > 0 THEN 1 ELSE 0

\* The capacity of errc: make(chan error, workers).
ErrcCap == workers

\* The image an early-error return of the pooled path hands back.
PoolErrImg == "canvas"

\* The inputs explored.
Cells(l) == IF l <= 0 THEN DefaultLevel * DefaultLevel ELSE l * l
Inputs ==
    {in \in ((0 - MaxNegLevel) .. MaxLevel) \X ((0 - MaxNegWorkers) .. MaxWorkers) :
        in[2] <= 1 \/ Cells(in[1]) * in[2] <= MaxLoad}

\* -------------------------------------------------------------------- Init
Init ==
    /\ \E in \in Inputs : levelArg = in[1] /\ Workers = in[2]
    /\ level = levelArg
    /\ workers = 0
    /\ pc = "entry"
    /\ x = 0
    /\ y = 0
    /\ canvasAlloc = FALSE
    /\ canvas = EmptyBag
    /\ chunks = "none"
    /\ errc = <<>>
    /\ errcState = "none"
    /\ wg = 0
    /\ wpc = <<>>
    /\ wc = <<>>
    /\ fetches = EmptyBag
    /\ failed = {}
    /\ sent = <<>>
    /\ retImg = "none"
    /\ retErr = NilErr
    /\ panicked = FALSE

\* ----------------------------------------------------------------- actions
\* A panic ends the program: no goroutine takes a step after it.
Running == ~panicked

\* Image called with level l while Workers is W, from its entry to the first
\* Chunk call or channel operation: defaults the level, takes the single-chunk path for level 1, normalizes
\* the worker count, allocates the canvas and, in the pooled path, makes the
\* channels and starts the worker goroutines.
ImageEntry(l, W) ==
    /\ Running
    /\ pc = "entry"
    /\ level' = EffLevel(l)
    /\ UNCHANGED <<panicked, levelArg, Workers, x, y, canvas, errc, fetches, failed,
                   sent, retImg, retErr>>
    /\ IF IsSingle(level')
       THEN /\ pc' = "single"
            /\ UNCHANGED <<workers, canvasAlloc, chunks, errcState, wg, wpc, wc>>
       ELSE /\ workers' = Normalize(level', W)
            /\ canvasAlloc' = TRUE
            /\ IF workers' = 1
               THEN /\ pc' = "seqFetch"
                    /\ UNCHANGED <<chunks, errcState, wg, wpc, wc>>
               ELSE /\ pc' = "select"
                    /\ chunks' = "open"
                    /\ errcState' = "open"
                    /\ wg' = workers'
                    /\ wpc' = [w \in 1 .. workers' |-> "recv"]
                    /\ wc' = [w \in 1 .. workers' |-> NoCoord]

\* Image(t, level) called while the package variable Workers has its value.
Entry == ImageEntry(level, Workers)

\* level == 1: return Chunk(t, level, 0, 0).
Single ==
    /\ Running
    /\ pc = "single"
    /\ fetches' = fetches (+) SetToBag({<<0, 0>>})
    /\ \E ok \in BOOLEAN :
          IF ok
          THEN /\ retImg' = "tile"
               /\ retErr' = NilErr
               /\ failed' = failed
          ELSE /\ retImg' = "nil"
               /\ retErr' = <<0, 0>>
               /\ failed' = failed \cup {<<0, 0>>}
    /\ pc' = "done"
    /\ UNCHANGED <<panicked, levelArg, Workers, level, workers, x, y, canvasAlloc, canvas,
                   chunks, errc, errcState, wg, wpc, wc, sent>>

\* workers == 1: img, err := Chunk(t, level, x, y); on an error return nil, err.
SeqChunk ==
    /\ Running
    /\ pc = "seqFetch"
    /\ fetches' = fetches (+) SetToBag({<<x, y>>})
    /\ \E ok \in BOOLEAN :
          IF ok
          THEN /\ pc' = "seqDraw"
               /\ UNCHANGED <<failed, retImg, retErr>>
          ELSE /\ pc' = "done"
               /\ failed' = failed \cup {<<x, y>>}
               /\ retImg' = "nil"
               /\ retErr' = <<x, y>>
    /\ UNCHANGED <<panicked, levelArg, Workers, level, workers, x, y, canvasAlloc, canvas,
                   chunks, errc, errcState, wg, wpc, wc, sent>>

\* workers == 1: draw(x, y, img), then the loops advance; after the last
\* coordinate return canvas, nil.
SeqDraw ==
    /\ Running
    /\ pc = "seqDraw"
    /\ canvas' = canvas (+) SetToBag({<<x, y>>})
    /\ x' = NextCoord(level, x, y)[1]
    /\ y' = NextCoord(level, x, y)[2]
    /\ IF y' < level
       THEN /\ pc' = "seqFetch"
            /\ UNCHANGED <<retImg, retErr>>
       ELSE /\ pc' = "done"
            /\ retImg' = "canvas"
            /\ retErr' = NilErr
    /\ UNCHANGED <<panicked, levelArg, Workers, level, workers, canvasAlloc, chunks, errc,
                   errcState, wg, wpc, wc, fetches, failed, sent>>

\* The select case chunks <- [2]int{x, y}, taken together with the receive of
\* worker w ranging over the unbuffered channel.
Handoff(w) ==
    /\ Running
    /\ pc = "select"
    /\ IF chunks = "closed"
       THEN /\ panicked' = TRUE
            /\ UNCHANGED <<wpc, wc, x, y, pc>>
       ELSE /\ wpc[w] = "recv"
            /\ wpc' = [wpc EXCEPT ![w] = "fetch"]
            /\ wc' = [wc EXCEPT ![w] = <<x, y>>]
            /\ x' = NextCoord(level, x, y)[1]
            /\ y' = NextCoord(level, x, y)[2]
            /\ pc' = IF y' < level THEN "select" ELSE "close"
            /\ UNCHANGED panicked
    /\ UNCHANGED <<levelArg, Workers, level, workers, canvasAlloc, canvas, chunks,
                   errc, errcState, wg, fetches, failed, sent, retImg, retErr>>

\* Variant of RecvErr: the error is recorded but the producer loop goes on.
RecvErrContinue ==
    /\ Running
    /\ pc = "select"
    /\ errc # <<>>
    /\ retErr' = ChanRecv(errc)
    /\ errc' = Tail(errc)
    /\ retImg' = PoolErrImg
    /\ UNCHANGED <<panicked, levelArg, Workers, level, workers, pc, x, y, canvasAlloc,
                   canvas, chunks, errcState, wg, wpc, wc, fetches, failed, sent>>

\* The select case err := <-errc: close(chunks); return canvas, err.
RecvErr ==
    /\ Running
    /\ pc = "select"
    /\ errc # <<>>
    /\ retErr' = ChanRecv(errc)
    /\ errc' = Tail(errc)
    /\ chunks' = "closed"
    /\ panicked' = (chunks = "closed")
    /\ retImg' = PoolErrImg
    /\ pc' = "done"
    /\ UNCHANGED <<levelArg, Workers, level, workers, x, y, canvasAlloc, canvas,
                   errcState, wg, wpc, wc, fetches, failed, sent>>

\* close(chunks) after the producer loop.
CloseChunks ==
    /\ Running
    /\ pc = "close"
    /\ chunks' = "closed"
    /\ panicked' = (chunks = "closed")
    /\ pc' = "wait"
    /\ UNCHANGED <<levelArg, Workers, level, workers, x, y, canvasAlloc, canvas,
                   errc, errcState, wg, wpc, wc, fetches, failed, sent, retImg,
                   retErr>>

\* Variant of Wait: wg.Wait() is missing.
WaitSkip ==
    /\ Running
    /\ pc = "wait"
    /\ pc' = "closeErrc"
    /\ UNCHANGED <<panicked, levelArg, Workers, level, workers, x, y, canvasAlloc,
                   canvas, chunks, errc, errcState, wg, wpc, wc, fetches, failed,
                   sent, retImg, retErr>>

\* wg.Wait() returns when the counter is zero.
Wait ==
    /\ Running
    /\ pc = "wait"
    /\ wg = 0
    /\ pc' = "closeErrc"
    /\ UNCHANGED <<panicked, levelArg, Workers, level, workers, x, y, canvasAlloc, canvas,
                   chunks, errc, errcState, wg, wpc, wc, fetches, failed, sent,
                   retImg, retErr>>

\* close(errc).
CloseErrc ==
    /\ Running
    /\ pc = "closeErrc"
    /\ errcState' = "closed"
    /\ panicked' = (errcState = "closed")
    /\ pc' = "return"
    /\ UNCHANGED <<levelArg, Workers, level, workers, x, y, canvasAlloc, canvas,
                   chunks, errc, wg, wpc, wc, fetches, failed, sent, retImg,
                   retErr>>

\* return canvas, <-errc.
Return ==
    /\ Running
    /\ pc = "return"
    /\ retErr' = ClosedRecv(errc)
    /\ errc' = IF errc = <<>> THEN errc ELSE Tail(errc)
    /\ retImg' = "canvas"
    /\ pc' = "done"
    /\ UNCHANGED <<panicked, levelArg, Workers, level, workers, x, y, canvasAlloc, canvas,
                   chunks, errcState, wg, wpc, wc, fetches, failed, sent>>

\* Worker w: img, err := Chunk(t, level, x, y).
WorkerChunk(w) ==
    /\ Running
    /\ wpc[w] = "fetch"
    /\ fetches' = fetches (+) SetToBag({wc[w]})
    /\ \E ok \in BOOLEAN :
          IF ok
          THEN /\ wpc' = [wpc EXCEPT ![w] = "draw"]
               /\ failed' = failed
          ELSE /\ wpc' = [wpc EXCEPT ![w] = "send"]
               /\ failed' = failed \cup {wc[w]}
    /\ UNCHANGED <<panicked, levelArg, Workers, level, workers, pc, x, y, canvasAlloc,
                   canvas, chunks, errc, errcState, wg, wc, sent, retImg, retErr>>

\* Variant of WorkerDraw: the closure draws at the producer's loop
\* variables x, y instead of its own.
WorkerDrawShared(w) ==
    /\ Running
    /\ wpc[w] = "draw"
    /\ canvas' = canvas (+) SetToBag({<<x, y>>})
    /\ wpc' = [wpc EXCEPT ![w] = "recv"]
    /\ wc' = [wc EXCEPT ![w] = NoCoord]
    /\ UNCHANGED <<panicked, levelArg, Workers, level, workers, pc, x, y, canvasAlloc,
                   chunks, errc, errcState, wg, fetches, failed, sent, retImg,
                   retErr>>

\* Worker w: draw(x, y, img), then back to the range over chunks; the
\* iteration's c, x, y are gone.
WorkerDraw(w) ==
    /\ Running
    /\ wpc[w] = "draw"
    /\ canvas' = canvas (+) SetToBag({wc[w]})
    /\ wpc' = [wpc EXCEPT ![w] = "recv"]
    /\ wc' = [wc EXCEPT ![w] = NoCoord]
    /\ UNCHANGED <<panicked, levelArg, Workers, level, workers, pc, x, y, canvasAlloc,
                   chunks, errc, errcState, wg, fetches, failed, sent, retImg,
                   retErr>>

\* Variant of WorkerSend: after the send the worker goes on with its range
\* over chunks.
WorkerSendResume(w) ==
    /\ Running
    /\ wpc[w] = "send"
    /\ errcState = "open"
    /\ Len(errc) < ErrcCap
    /\ errc' = Append(errc, wc[w])
    /\ sent' = Append(sent, wc[w])
    /\ wpc' = [wpc EXCEPT ![w] = "recv"]
    /\ UNCHANGED <<panicked, levelArg, Workers, level, workers, pc, x, y,
                   canvasAlloc, canvas, chunks, errcState, wg, wc, fetches,
                   failed, retImg, retErr>>

\* Variant of WorkerSend: a failing worker returns without reporting.
WorkerSendDrop(w) ==
    /\ Running
    /\ wpc[w] = "send"
    /\ wpc' = [wpc EXCEPT ![w] = "done"]
    /\ wg' = wg - 1
    /\ UNCHANGED <<panicked, levelArg, Workers, level, workers, pc, x, y,
                   canvasAlloc, canvas, chunks, errc, errcState, wc, fetches,
                   failed, sent, retImg, retErr>>

\* Worker w: errc <- err; return (the deferred wg.Done runs).  The send
\* needs room in the buffer of errc and blocks until there is; a send on a
\* closed channel panics.
WorkerSend(w) ==
    /\ Running
    /\ wpc[w] = "send"
    /\ IF errcState = "closed"
       THEN /\ panicked' = TRUE
            /\ UNCHANGED <<errc, sent, wpc, wg>>
       ELSE /\ Len(errc) < ErrcCap
            /\ errc' = Append(errc, wc[w])
            /\ sent' = Append(sent, wc[w])
            /\ wpc' = [wpc EXCEPT ![w] = "done"]
            /\ wg' = wg - 1
            /\ UNCHANGED panicked
    /\ UNCHANGED <<levelArg, Workers, level, workers, pc, x, y, canvasAlloc,
                   canvas, chunks, errcState, wc, fetches, failed, retImg, retErr>>

\* Variant of WorkerExit: the worker takes the zero value a closed channel
\* yields as a coordinate and goes on.
WorkerExitSpin(w) ==
    /\ Running
    /\ wpc[w] = "recv"
    /\ chunks = "closed"
    /\ wpc' = [wpc EXCEPT ![w] = "fetch"]
    /\ wc' = [wc EXCEPT ![w] = <<0, 0>>]
    /\ UNCHANGED <<panicked, levelArg, Workers, level, workers, pc, x, y,
                   canvasAlloc, canvas, chunks, errc, errcState, wg, fetches,
                   failed, sent, retImg, retErr>>

\* Worker w: the range over chunks ends because the channel is closed; the
\* goroutine returns (the deferred wg.Done runs).
WorkerExit(w) ==
    /\ Running
    /\ wpc[w] = "recv"
    /\ chunks = "closed"
    /\ wpc' = [wpc EXCEPT ![w] = "done"]
    /\ wg' = wg - 1
    /\ UNCHANGED <<panicked, levelArg, Workers, level, workers, pc, x, y, canvasAlloc,
                   canvas, chunks, errc, errcState, wc, fetches, failed, sent,
                   retImg, retErr>>

\* The steps of the main goroutine after the entry code.
MainStep ==
    \/ Single
    \/ SeqChunk
    \/ SeqDraw
    \/ \E w \in DOMAIN wpc : Handoff(w)
    \/ RecvErr
    \/ CloseChunks
    \/ Wait
    \/ CloseErrc
    \/ Return

\* The steps of the worker goroutines.
WorkerStep ==
    \/ \E w \in DOMAIN wpc : WorkerChunk(w)
    \/ \E w \in DOMAIN wpc : WorkerDraw(w)
    \/ \E w \in DOMAIN wpc : WorkerSend(w)
    \/ \E w \in DOMAIN wpc : WorkerExit(w)

Next ==
    \/ Entry
    \/ MainStep
    \/ WorkerStep

Spec == Init /\ [][Next]_vars

\* Every Chunk call returns and the Go scheduler runs every goroutine that
\* can take a step: the main goroutine and the workers keep taking steps
\* while they have one.
FairSpec ==
    /\ Init /\ [][Next]_vars
    /\ WF_vars(Entry \/ MainStep)
    /\ WF_vars(WorkerStep)

\* ------------------------------------------------------------------ claims
Pooled == DOMAIN wpc # {}
Returned == pc = "done"

\* The rectangle c of the returned image holds its tile: drawn into the
\* canvas, or the single tile itself when the tile is what Image returned.
Populated(c) ==
    \/ retImg = "canvas" /\ BagIn(c, canvas)
    \/ retImg = "tile" /\ c = <<0, 0>>

\* C1: whenever Image has returned a nil error, no tile fetch has failed and
\* every rectangle of the level x level grid is populated.
C1_NilErrorMeansComplete ==
    (Returned /\ retErr = NilErr) =>
        /\ failed = {}
        /\ \A c \in Grid(level) : Populated(c)

\* C1 witness: a pooled run with Workers above level^2 returned a nil error.
C1_Witness ==
    /\ Returned /\ retErr = NilErr
    /\ level = 2 /\ Workers > level * level /\ Pooled
    /\ \A c \in Grid(level) : BagIn(c, canvas)

\* C2: when exactly one coordinate has failed, Image returns that
\* coordinate's error (and not nil, and not another error).
C2_SingleFailureReturned ==
    (Returned /\ Cardinality(failed) = 1) => retErr \in failed

\* C2 witness: the pooled path returned the error of the last coordinate
\* dispatched, the only one that failed.
C2_Witness ==
    /\ Returned /\ Pooled
    /\ failed = {<<level - 1, level - 1>>}
    /\ retErr = <<level - 1, level - 1>>

\* C3: every coordinate passed to Chunk is a coordinate of the grid and is
\* passed at most once; when Image has returned and no fetch failed, every
\* coordinate of the grid was fetched exactly once.
C3_NoDoubleDispatch ==
    /\ pc # "entry" =>
          \A c \in BagToSet(fetches) : c \in Grid(level) /\ CopiesIn(c, fetches) = 1
    /\ (Returned /\ failed = {}) => BagToSet(fetches) = Grid(level)

\* C3 witness: a pooled run fetched all coordinates of a 3 x 3 grid.
C3_Witness ==
    /\ Returned /\ Pooled /\ failed = {}
    /\ level = 3
    /\ BagCardinality(fetches) = 9

\* C4: in the pooled mode, when Image has returned, every worker goroutine
\* has finished.
C4_WorkersJoinedAtReturn ==
    (Returned /\ Pooled) => \A w \in DOMAIN wpc : wpc[w] = "done"

\* C5: whenever Image returns a non-nil error it returns a nil image.
C5_NoImageWithError ==
    (Returned /\ retErr # NilErr) => retImg = "nil"

\* C6: in the pooled path the error Image returns is the first error sent on
\* the error channel: a returned error is that one, and on the path that
\* returns after all coordinates were dispatched a reported failure is
\* never replaced by nil.
C6_FirstErrorWins ==
    (Returned /\ Pooled) =>
        /\ retErr # NilErr => (sent # <<>> /\ retErr = sent[1])
        /\ (errcState = "closed" /\ sent # <<>>) => retErr = sent[1]

\* C6 witness: two workers had reported errors when the producer took one
\* on the early-return path, and Image returned the first of them.
C6_Witness ==
    /\ Returned /\ Pooled /\ errcState = "open"
    /\ Len(sent) >= 2 /\ Len(errc) = Len(sent) - 1
    /\ \A w \in DOMAIN wpc : wpc[w] # "send" /\ wpc[w] # "fetch"
    /\ retErr = sent[1] /\ retErr # sent[2]

\* C8: a call with level 1 starts no worker goroutine, makes no channel and
\* allocates no canvas, fetches nothing but coordinate (0, 0), and returns
\* after exactly one fetch with that fetch's image and error.
C8_SingleTile ==
    (levelArg = 1 /\ pc # "entry") =>
        /\ ~Pooled /\ chunks = "none" /\ errcState = "none" /\ ~canvasAlloc
        /\ canvas = EmptyBag
        /\ BagToSet(fetches) \subseteq {<<0, 0>>}
        /\ Returned =>
              /\ fetches = SetToBag({<<0, 0>>})
              /\ \/ retImg = "tile" /\ retErr = NilErr /\ failed = {}
                 \/ retImg = "nil" /\ retErr = <<0, 0>> /\ failed = {<<0, 0>>}

\* C8 witness: a level 1 call with a pool-sized Workers setting returned the
\* single tile.
C8_Witness ==
    /\ levelArg = 1 /\ Workers > 1 /\ Returned
    /\ retImg = "tile" /\ retErr = NilErr

\* The Workers settings compared by C7, and the steps Image can take when it
\* is called with level l while Workers is W.
WorkerSettings == (0 - MaxNegWorkers) .. MaxWorkers
NextAs(l, W) == ImageEntry(l, W) \/ MainStep \/ WorkerStep

\* Two Workers settings the claim C7 equates for a grid of side l.
SameSetting(l, W1, W2) ==
    \/ W1 = W2
    \/ W1 <= 1 /\ W2 <= 1
    \/ W1 >= l * l /\ W2 >= l * l

\* C7: for level >= 2, a call with Workers <= 0 runs the sequential path
\* and a call with Workers > level^2 starts exactly level^2 workers.
C7_NormalizedPaths ==
    (levelArg >= 2 /\ pc # "entry") =>
        /\ Workers <= 0 => (workers = 1 /\ ~Pooled /\ chunks = "none" /\ wg = 0)
        /\ Workers > level * level =>
              (workers = level * level /\ DOMAIN wpc = 1 .. level * level)

\* C7: for level >= 2, every step of a call is also a step of the call made
\* with any setting the claim equates with Workers (a setting <= 0 with 1,
\* a setting above level^2 with level^2, and the other way round), so the
\* calls have the same behaviours; and the paths are as C7_NormalizedPaths
\* says.
C7_WorkerNormalization ==
    /\ []C7_NormalizedPaths
    /\ [][levelArg >= 2 =>
            \A W2 \in WorkerSettings :
                SameSetting(levelArg, Workers, W2) => NextAs(level, W2)]_vars

\* C7 witness: a call with Workers above level^2 has run level^2 workers to
\* the end.
C7_Witness ==
    /\ levelArg = 2 /\ Workers > 4 /\ Returned
    /\ DOMAIN wpc = 1 .. 4
    /\ \A w \in DOMAIN wpc : wpc[w] = "done"

\* C9: a call with level <= 0 is on the 4 x 4 grid and off the single-tile
\* path: it fetches and draws only coordinates of that grid, and a nil
\* error comes with all 16 rectangles drawn.
C9_DefaultGrid ==
    (levelArg <= 0 /\ pc # "entry") =>
        /\ level = 4
        /\ pc # "single" /\ retImg # "tile" /\ canvasAlloc
        /\ BagToSet(fetches) \subseteq Grid(4)
        /\ BagToSet(canvas) \subseteq Grid(4)
        /\ (Returned /\ retErr = NilErr) => Cardinality(BagToSet(canvas)) = 16

\* C9: every step of a call with level <= 0 is a step of the call with
\* level DefaultLevel, so the call behaves as that one; and its grid is as
\* C9_DefaultGrid says.
C9_DefaultLevel ==
    /\ []C9_DefaultGrid
    /\ [][levelArg <= 0 =>
            NextAs(IF pc = "entry" THEN DefaultLevel ELSE level, Workers)]_vars

\* C9 witness: a call with level 0 has drawn the 16 rectangles with a pool.
C9_Witness ==
    /\ levelArg = 0 /\ Returned /\ Pooled /\ retErr = NilErr
    /\ BagToSet(canvas) = Grid(4)

\* C10 as stated: once a worker has reported an error, the producer hands
\* off no further coordinate.
C10_NoHandoffAfterReport ==
    [][(Pooled /\ sent # <<>>) => (x' = x /\ y' = y)]_vars

\* C10 amended: once the producer has received a worker's error (Image has
\* returned on the early path), no further coordinate is handed off, and
\* the only fetches that can still complete are those in flight then.
C10_NoHandoffAfterReceipt ==
    [][(Pooled /\ retImg # "none") =>
          /\ x' = x /\ y' = y
          /\ \A w \in DOMAIN wpc : wpc'[w] = "fetch" => wpc[w] = "fetch"]_vars

\* C10 witness: Image returned early with coordinates left undispatched
\* while a worker was still fetching.
C10_Witness ==
    /\ Returned /\ Pooled /\ errcState = "open" /\ retErr # NilErr
    /\ y < level
    /\ \E w \in DOMAIN wpc : wpc[w] = "fetch"

\* C11: in every state before the return some goroutine can take a step
\* (no deadlock between the handoff, the workers and the join).
C11_NoDeadlock == Returned \/ ENABLED Next

\* C11: with every fetch returning and every goroutine scheduled, Image
\* eventually returns, and no state before the return is a deadlock.
C11_ImageReturns == <>Returned /\ []C11_NoDeadlock

\* C11 witness: Image returned although every worker had exited after a
\* failure while coordinates were still undispatched.
C11_Witness ==
    /\ Returned /\ Pooled /\ y < level
    /\ \A w \in DOMAIN wpc : wpc[w] = "done" /\ wc[w] \in failed

\* The workers whose fetch failed, and those of them that have reported.
FailedWorkers == {w \in DOMAIN wpc : wpc[w] \in {"send", "done"} /\ wc[w] \in failed}
ReportedWorkers == {w \in FailedWorkers : wpc[w] = "done"}

\* C12: no tile whose fetch failed is drawn, and the errors sent on errc
\* are, one each and without repetition, the errors of the workers that
\* failed and returned.
C12_OneReportPerFailure ==
    Pooled =>
        /\ \A c \in failed : ~BagIn(c, canvas)
        /\ Len(sent) = Cardinality(ReportedWorkers)
        /\ {sent[k] : k \in 1 .. Len(sent)} = {wc[w] : w \in ReportedWorkers}
        /\ \A w \in DOMAIN wpc : wpc[w] = "send" => wc[w] \in failed

\* C12: a worker whose fetch failed sends one error and stops: from its
\* failure on it only moves from the send to its end, keeps the failed
\* coordinate, and never receives, fetches or draws again.
C12_FailedWorkerStops ==
    /\ []C12_OneReportPerFailure
    /\ [][\A w \in FailedWorkers :
            /\ wpc'[w] \in {"send", "done"}
            /\ wc'[w] = wc[w]
            /\ wpc[w] = "done" => (wpc'[w] = "done" /\ (sent' = sent \/ Len(sent') = Len(sent) + 1))
            /\ (wpc[w] = "send" /\ wpc'[w] = "done") => sent' = Append(sent, wc[w])]_vars

\* C12 witness: two workers failed and reported while a third worker went
\* on taking coordinates.
C12_Witness ==
    /\ Cardinality(ReportedWorkers) = 2
    /\ Len(sent) = 2
    /\ \E w \in DOMAIN wpc : wpc[w] = "draw"

\* The sequential path, the row-major position of a coordinate, and the
\* first n coordinates in row-major order.
Sequential == pc # "entry" /\ level >= 2 /\ workers = 1
Index(c) == c[2] * level + c[1]
Prefix(n) == {c \in Grid(level) : Index(c) < n}

\* C13: in the sequential path the tiles fetched are the first tiles in
\* row-major order, each fetched once; the tiles drawn are those fetched,
\* but for the one being handled, so each tile is drawn before the next
\* fetch; a failed fetch is the last fetch, its tile is not drawn, and Image
\* has returned its error with no further fetch or draw.
C13_SequentialOrder ==
    Sequential =>
        /\ ~Pooled
        /\ \A c \in BagToSet(fetches) : CopiesIn(c, fetches) = 1
        /\ \A c \in BagToSet(canvas) : CopiesIn(c, canvas) = 1
        /\ BagToSet(fetches) = Prefix(BagCardinality(fetches))
        /\ BagToSet(canvas) = Prefix(BagCardinality(canvas))
        /\ pc = "seqFetch" =>
              (BagCardinality(canvas) = BagCardinality(fetches) /\ Index(<<x, y>>) = BagCardinality(fetches))
        /\ pc = "seqDraw" =>
              (BagCardinality(canvas) = BagCardinality(fetches) - 1 /\ Index(<<x, y>>) = BagCardinality(canvas))
        /\ failed # {} =>
              /\ Returned /\ failed = {retErr} /\ retImg = "nil"
              /\ Index(retErr) = BagCardinality(fetches) - 1
              /\ BagCardinality(canvas) = BagCardinality(fetches) - 1
        /\ (Returned /\ failed = {}) =>
              (retErr = NilErr /\ BagToSet(canvas) = Grid(level))

\* C13 witness: the sequential path stopped at a failure in the middle of
\* the second row of a 3 x 3 grid.
C13_Witness ==
    /\ Sequential /\ Returned /\ level = 3
    /\ retErr = <<1, 1>>
    /\ BagToSet(canvas) = {<<0, 0>>, <<1, 0>>, <<2, 0>>, <<0, 1>>}

\* The workers that hold a tile's coordinate and may still draw it.
Holding == {w \in DOMAIN wpc : wpc[w] \in {"fetch", "draw"}}

\* C14: every rectangle drawn is a rectangle of the grid and is drawn once;
\* two workers never hold the same rectangle, and no worker holds one that
\* is already drawn; when Image has returned and no fetch failed, the
\* canvas holds every rectangle of the grid exactly once.
C14_DisjointWrites ==
    (pc # "entry" /\ level >= 2) =>
        /\ \A c \in BagToSet(canvas) : c \in Grid(level) /\ CopiesIn(c, canvas) = 1
        /\ \A w1, w2 \in Holding : w1 # w2 => wc[w1] # wc[w2]
        /\ \A w \in Holding : wc[w] \in Grid(level) /\ ~BagIn(wc[w], canvas)
        /\ (Returned /\ failed = {}) => canvas = SetToBag(Grid(level))

\* C14 witness: three workers are about to draw at the same time, after
\* other rectangles were drawn.
C14_Witness ==
    /\ Cardinality({w \in DOMAIN wpc : wpc[w] = "draw"}) = 3
    /\ BagCardinality(canvas) >= 2

\* The tile fetches in flight: the Chunk call of the main goroutine on the
\* single-tile and sequential paths, and those of the workers.
InFlight ==
    (IF pc \in {"single", "seqFetch"} THEN 1 ELSE 0)
        + Cardinality({w \in DOMAIN wpc : wpc[w] = "fetch"})

\* min(max(Workers, 1), level^2), as C15 states the bound.
C15_Bound ==
    LET atLeastOne == IF Workers < 1 THEN 1 ELSE Workers
    IN  IF atLeastOne > level * level THEN level * level ELSE atLeastOne

\* C15: the fetches in flight, and the worker goroutines started, never
\* exceed min(max(Workers, 1), level^2).
C15_BoundedConcurrency ==
    /\ pc = "entry" => InFlight = 0
    /\ pc # "entry" =>
          /\ InFlight <= C15_Bound
          /\ Cardinality(DOMAIN wpc) <= C15_Bound
          /\ InFlight <= level * level
          /\ Workers >= 1 => InFlight <= Workers

\* C15 witness: with Workers = 3 on a 3 x 3 grid three fetches are in
\* flight at once.
C15_Witness ==
    /\ level = 3 /\ Workers = 3
    /\ InFlight = 3

\* C16: errc has room for one error of every worker: its capacity is the
\* number of workers, it never holds more errors than that, and a worker
\* at its send can always send at once (the channel is open and not full),
\* before and after Image has returned.
C16_SendNeverBlocks ==
    Pooled =>
        /\ ErrcCap = Cardinality(DOMAIN wpc)
        /\ Len(errc) <= Cardinality(DOMAIN wpc)
        /\ Len(sent) <= Cardinality(DOMAIN wpc)
        /\ \A w \in DOMAIN wpc :
              wpc[w] = "send" =>
                  /\ errcState = "open"
                  /\ Len(errc) < Cardinality(DOMAIN wpc)
                  /\ ENABLED WorkerSend(w)

\* C16 witness: after Image returned early a worker is at its send while
\* errc already holds another worker's error.
C16_Witness ==
    /\ Returned /\ Pooled
    /\ Len(errc) >= 1
    /\ \E w \in DOMAIN wpc : wpc[w] = "send"

AllWorkersDone == \A w \in DOMAIN wpc : wpc[w] = "done"

\* C17: no goroutine has panicked; wherever the producer can send on or
\* close chunks the channel is open, and chunks is closed when Image has
\* returned; errc is closed only where every worker has finished, and a
\* worker at its send finds errc open.
C17_ChannelState ==
    /\ ~panicked
    /\ pc \in {"select", "close"} => chunks = "open"
    /\ (Returned /\ Pooled) => chunks = "closed"
    /\ pc = "closeErrc" => (errcState = "open" /\ wg = 0 /\ AllWorkersDone)
    /\ errcState = "closed" => (wg = 0 /\ AllWorkersDone)
    /\ \A w \in DOMAIN wpc : wpc[w] = "send" => errcState = "open"

\* C17: no channel misuse is reachable: the channel states are as
\* C17_ChannelState says, a closed channel stays closed, nothing is handed
\* off after chunks is closed and nothing is sent after errc is closed.
C17_NoChannelMisuse ==
    /\ []C17_ChannelState
    /\ [][/\ chunks = "closed" => (chunks' = "closed" /\ x' = x /\ y' = y)
          /\ errcState = "closed" => (errcState' = "closed" /\ sent' = sent)]_vars

\* C17 witness: errc was closed after the join with a worker's error in it,
\* and Image returned that error.
C17_Witness ==
    /\ Returned /\ errcState = "closed" /\ chunks = "closed"
    /\ Len(sent) >= 2 /\ retErr = sent[1]

\* C18: once chunks is closed every worker goroutine eventually ends, and
\* from then on no worker takes a new coordinate: a worker only finishes
\* the tile it holds.
C18_NoWorkerLeak ==
    /\ (chunks = "closed") ~> AllWorkersDone
    /\ [](AllWorkersDone => wg = 0)
    /\ [][chunks = "closed" =>
            \A w \in DOMAIN wpc :
                /\ wpc'[w] = "fetch" => wpc[w] = "fetch"
                /\ wc'[w] # wc[w] => wc'[w] = NoCoord]_vars

\* C18 witness: Image returned early, and afterwards every worker has
\* ended, one of them leaving an error in errc that nobody reads.
C18_Witness ==
    /\ Returned /\ errcState = "open" /\ chunks = "closed"
    /\ AllWorkersDone /\ wg = 0
    /\ Len(errc) >= 1
    /\ \E w \in DOMAIN wpc : wc[w] = NoCoord

====
